---------------------------- MODULE Spec2Model ----------------------------
(***************************************************************************)
(* Hologram video compositor backend (backend/server.py).                  *)
(*                                                                         *)
(* The model follows the handlers of server.py between their await points: *)
(* every database call (find_one, update_one, insert_one) is one atomic    *)
(* step, taken together with the synchronous code that runs up to the      *)
(* next await of the same coroutine.  Fractions (settings, progress) are   *)
(* integers: settings in hundredths, progress in percent.  Python's None   *)
(* is the empty tuple; a present optional value is a non-empty tuple.      *)
(* Timestamps (created_at, updated_at) are not modelled.                   *)
(***************************************************************************)
EXTENDS Integers, Sequences, FiniteSets, TLC

VARIABLES
    store,   \* db.hologram_projects: project id -> project record
    files,   \* the uploads/ and processed/ directories: path -> "partial" | "complete"
    req,     \* invocations of process_project, one per slot
    task,    \* background tasks process_hologram_video, one per slot
    upl,     \* invocations of the two upload handlers, one per asset kind
    out      \* the response returned to a client by the step just taken, if any

vars == <<store, files, req, task, upl, out>>

-----------------------------------------------------------------------------
(* Bounds of the model *)

MaxProjects == 1
MaxStarts == 2

(* Program constants *)

BaseLimitMB == 100
MediaLimitMB == 50

-----------------------------------------------------------------------------
(* Values *)

None == <<>>

ProjectIds == 1 .. MaxProjects
Slots == 1 .. MaxStarts
Kinds == {"base", "hologram"}

ProjectNames == {"demo"}

\* HologramSettings with its field defaults (hundredths)
DefaultSettings ==
    [hologram_size |-> 30, hologram_position_x |-> 50, hologram_position_y |-> 50,
     glow_intensity |-> 70, flicker_intensity |-> 30, scanlines |-> TRUE,
     blue_tint |-> TRUE, rotation_angle |-> 0, transparency |-> 70]

\* a request body that sets every field
PlainSettings ==
    [hologram_size |-> 50, hologram_position_x |-> 100, hologram_position_y |-> 0,
     glow_intensity |-> 0, flicker_intensity |-> 0, scanlines |-> FALSE,
     blue_tint |-> FALSE, rotation_angle |-> 0, transparency |-> 100]

SettingsInputs == {DefaultSettings, PlainSettings}

\* settings: dict = Field(default_factory=dict)
EmptySettings == <<>>

\* what an upload request carries: content type ("" when the part has none) and
\* size in MB; for each handler a type and a size it accepts and ones it refuses
ContentTypes(k) == IF k = "base" THEN {"video/mp4", "image/png", ""}
                   ELSE {"image/png", "text/plain", ""}
UploadSizesMB(k) == IF k = "base" THEN {60, 120} ELSE {10, 60}

UploadName(k) == IF k = "base" THEN "clip.mp4" ELSE "overlay.mp4"

\* UPLOADS_DIR / f"base_{project_id}{ext}", UPLOADS_DIR / f"hologram_{project_id}{ext}"
UploadPath(k, p) == <<"uploads", k, p, ".mp4">>

\* PROCESSED_DIR / f"hologram_{project_id}.mp4"
OutputPath(p) == <<"processed", "hologram", p, ".mp4">>

\* the project a path under uploads/ or processed/ belongs to
PathProject(f) == f[3]

\* the ids of two projects side by side
PairIds == 1 .. MaxProjects + 1

AllPaths == {UploadPath(k, p) : k \in Kinds, p \in PairIds} \cup {OutputPath(p) : p \in PairIds}

\* output_path.stat().st_size if output_path.exists() else 0: the sizes in bytes
\* a stat can report of a missing, a partly written and a finished output file
OutputSizes == {0, 4096, 1536000}

StatSizes(f) ==
    IF f = "absent" THEN {0}
    ELSE IF f = "partial" THEN {0, 4096}
    ELSE {1536000}

\* width and height of the base video as ffprobe reports them
ProbeDims == {<<640, 480>>}

\* outcomes of the external tools
ProbeOutcomes == {"ok", "no_info", "no_video_stream"}
FfmpegOutcomes == {"ok", "exit_nonzero", "launch_failed"}

ProbeError(o) ==
    IF o = "no_info" THEN <<"Could not get base video information">>
    ELSE <<"No video stream found in base video">>

\* the text ffmpeg leaves on stderr, and the text of the OSError of a failed launch
FfmpegStderr == "Invalid data found when processing input"
LaunchErrorText == "[Errno 2] No such file or directory: 'ffmpeg'"

FfmpegError(o) ==
    IF o = "exit_nonzero" THEN <<"Video processing failed: ", FfmpegStderr>>
    ELSE <<LaunchErrorText>>

HologramProject(name) ==
    [name |-> name,
     base_video_path |-> None, base_video_filename |-> None, base_video_size |-> None,
     hologram_media_path |-> None, hologram_media_filename |-> None,
     hologram_media_size |-> None, hologram_media_type |-> None,
     settings |-> EmptySettings,
     status |-> "created",
     output_path |-> None, output_size |-> None, error_message |-> None,
     processing_progress |-> 0]

\* a slot with no invocation of process_project in flight
IdleReq == [pc |-> "idle", project_id |-> 0, settings |-> DefaultSettings,
            base_video_path |-> None, hologram_media_path |-> None]

\* a slot with no background task scheduled or running
NoTask == [pc |-> "none", project_id |-> 0, settings |-> DefaultSettings,
           base_video_path |-> None, hologram_media_path |-> None,
           base_width |-> 0, base_height |-> 0,
           hologram_width |-> 0, hologram_height |-> 0,
           hologram_x |-> 0, hologram_y |-> 0,
           filter_complex |-> <<>>]

\* no upload of the kind in flight
IdleUpload == [pc |-> "idle", project_id |-> 0, content_type |-> "", size |-> 0]

Response(handler, slot, p, result) ==
    [handler |-> handler, slot |-> slot, project_id |-> p, result |-> result]

NoResponse == Response("none", 0, 0, "none")

\* file.content_type.startswith('video/'), .startswith('image/')
IsVideo(ctype) == ctype = "video/mp4"
IsImage(ctype) == ctype = "image/png"

Rejections == {"not_found", "missing_inputs", "already_processing", "ffmpeg_unavailable"}

-----------------------------------------------------------------------------
(* update_one({"id": project_id}, {"$set": fields}): a missing id matches nothing *)

\* mutant: an update without its {"id": project_id} filter, on every record
SetFields_EveryRecord(st, p, fields) ==
    [q \in DOMAIN st |-> [f \in DOMAIN st[q] |-> IF f \in DOMAIN fields THEN fields[f] ELSE st[q][f]]]

SetFields(st, p, fields) ==
    IF p \in DOMAIN st
    THEN [st EXCEPT ![p] = [f \in DOMAIN @ |-> IF f \in DOMAIN fields THEN fields[f] ELSE @[f]]]
    ELSE st

update_progress(st, p, progress) == SetFields(st, p, [processing_progress |-> progress])

-----------------------------------------------------------------------------
Init ==
    /\ store = <<>>
    /\ files = [f \in AllPaths |-> "absent"]
    /\ req = [r \in Slots |-> IdleReq]
    /\ task = [r \in Slots |-> NoTask]
    /\ upl = [k \in Kinds |-> IdleUpload]
    /\ out = NoResponse

(* create_project: insert a fresh record under a new id *)
CreateProject(name) ==
    /\ Len(store) < MaxProjects
    /\ store' = Append(store, HologramProject(name))
    /\ out' = Response("create_project", 0, Len(store) + 1, "ok")
    /\ UNCHANGED <<files, req, task, upl>>

-----------------------------------------------------------------------------
(* upload_base_video, upload_hologram_media *)

TypeAllowed(k, ctype) ==
    IF k = "base" THEN ctype # "" /\ IsVideo(ctype)
    ELSE ctype # "" /\ (IsVideo(ctype) \/ IsImage(ctype))

SizeLimitMB(k) == IF k = "base" THEN BaseLimitMB ELSE MediaLimitMB

\* mutant: both handlers test against the limit of the base video
TooLarge_BaseLimit(k, size) == size # 0 /\ size > BaseLimitMB

\* if file.size and file.size > limit
TooLarge(k, size) == size # 0 /\ size > SizeLimitMB(k)

UploadCheck(st, k, p, ctype, size) ==
    IF p \notin DOMAIN st THEN "not_found"
    ELSE IF ~TypeAllowed(k, ctype) THEN "bad_type"
    ELSE IF TooLarge(k, size) THEN "too_large"
    ELSE "ok"

\* mutant: an upload puts the project back to created
UploadFields_ResetsStatus(k, p, ctype, size) ==
    IF k = "base"
    THEN [base_video_path |-> UploadPath(k, p),
          base_video_filename |-> <<UploadName(k)>>,
          base_video_size |-> <<size>>,
          status |-> "created"]
    ELSE [hologram_media_path |-> UploadPath(k, p),
          hologram_media_filename |-> <<UploadName(k)>>,
          hologram_media_size |-> <<size>>,
          hologram_media_type |-> <<ctype>>,
          status |-> "created"]

\* the $set of the upload handler of kind k
UploadFields(k, p, ctype, size) ==
    IF k = "base"
    THEN [base_video_path |-> UploadPath(k, p),
          base_video_filename |-> <<UploadName(k)>>,
          base_video_size |-> <<size>>]
    ELSE [hologram_media_path |-> UploadPath(k, p),
          hologram_media_filename |-> <<UploadName(k)>>,
          hologram_media_size |-> <<size>>,
          hologram_media_type |-> <<ctype>>]

UploadHandler(k) == IF k = "base" THEN "upload_base_video" ELSE "upload_hologram_media"

\* find_one, the validations, and open(file_path, "wb")
UploadRead(k, p, ctype, size) ==
    /\ upl[k].pc = "idle"
    /\ LET check == UploadCheck(store, k, p, ctype, size) IN
       IF check = "ok"
       THEN /\ upl' = [upl EXCEPT ![k] = [pc |-> "writing", project_id |-> p,
                                           content_type |-> ctype, size |-> size]]
            /\ files' = [files EXCEPT ![UploadPath(k, p)] = "partial"]
            /\ out' = NoResponse
       ELSE /\ out' = Response(UploadHandler(k), 0, p, check)
            /\ UNCHANGED <<upl, files>>
    /\ UNCHANGED <<store, req, task>>

\* the chunk loop up to the closing of the file
UploadWrite(k) ==
    /\ upl[k].pc = "writing"
    /\ files' = [files EXCEPT ![UploadPath(k, upl[k].project_id)] = "complete"]
    /\ upl' = [upl EXCEPT ![k].pc = "written"]
    /\ out' = NoResponse
    /\ UNCHANGED <<store, req, task>>

\* update_one with the asset's fields, then the response
UploadCommit(k) ==
    /\ upl[k].pc = "written"
    /\ store' = SetFields(store, upl[k].project_id,
                          UploadFields(k, upl[k].project_id, upl[k].content_type, upl[k].size))
    /\ upl' = [upl EXCEPT ![k] = IdleUpload]
    /\ out' = Response(UploadHandler(k), 0, upl[k].project_id, "ok")
    /\ UNCHANGED <<files, req, task>>

-----------------------------------------------------------------------------
(* process_project *)

\* mutant: the two asset checks joined by "and"
MissingInputs_And(project) ==
    project.base_video_path = None /\ project.hologram_media_path = None

MissingInputs(project) ==
    project.base_video_path = None \/ project.hologram_media_path = None

\* mutant: the check compares with a status the program never writes
AlreadyProcessing_WrongStatus(project) == project.status = "running"

AlreadyProcessing(project) == project.status = "processing"

\* mutant: a failed project is turned down like one that is processing
StartCheck_FailedIsFinal(st, p, ffmpeg) ==
    IF p \notin DOMAIN st THEN "not_found"
    ELSE IF MissingInputs(st[p]) THEN "missing_inputs"
    ELSE IF AlreadyProcessing(st[p]) \/ st[p].status = "failed" THEN "already_processing"
    ELSE IF ~ffmpeg THEN "ffmpeg_unavailable"
    ELSE "ok"

\* the checks of process_project in their order; ffmpeg is check_ffmpeg()[0]
StartCheck(st, p, ffmpeg) ==
    IF p \notin DOMAIN st THEN "not_found"
    ELSE IF MissingInputs(st[p]) THEN "missing_inputs"
    ELSE IF AlreadyProcessing(st[p]) THEN "already_processing"
    ELSE IF ~ffmpeg THEN "ffmpeg_unavailable"
    ELSE "ok"

\* mutant: the settings are persisted ahead of the ffmpeg check
StoreAfterChecks_EarlyWrite(st, p, settings, check) ==
    IF check = "ffmpeg_unavailable" THEN SetFields(st, p, [settings |-> settings]) ELSE st

\* the store as the find_one and the checks leave it: they write nothing
StoreAfterChecks(st, p, settings, check) == st

\* a slot holding neither a request in flight nor a task
FreeSlot(r) == req[r].pc = "idle" /\ task[r].pc = "none"

\* find_one, HologramProject(**project), the checks
StartRead(r, p, settings, ffmpeg) ==
    /\ FreeSlot(r)
    /\ \A q \in Slots : q < r => ~FreeSlot(q)
    /\ LET check == StartCheck(store, p, ffmpeg) IN
       /\ store' = StoreAfterChecks(store, p, settings, check)
       /\ IF check = "ok"
          THEN /\ req' = [req EXCEPT ![r] = [pc |-> "checked", project_id |-> p,
                                             settings |-> settings,
                                             base_video_path |-> store[p].base_video_path,
                                             hologram_media_path |-> store[p].hologram_media_path]]
               /\ out' = NoResponse
          ELSE /\ out' = Response("process_project", r, p, check)
               /\ UNCHANGED req
    /\ UNCHANGED <<files, task, upl>>

\* update_one with the settings, background_tasks.add_task, the response
StartCommit(r) ==
    /\ req[r].pc = "checked"
    /\ store' = SetFields(store, req[r].project_id, [settings |-> req[r].settings])
    /\ task' = [task EXCEPT ![r] = [NoTask EXCEPT
                                        !.pc = "scheduled",
                                        !.project_id = req[r].project_id,
                                        !.settings = req[r].settings,
                                        !.base_video_path = req[r].base_video_path,
                                        !.hologram_media_path = req[r].hologram_media_path]]
    /\ req' = [req EXCEPT ![r] = IdleReq]
    /\ out' = Response("process_project", r, req[r].project_id, "started")
    /\ UNCHANGED <<files, upl>>

-----------------------------------------------------------------------------
(* process_hologram_video: the hologram geometry and the filter_complex list *)

Max(a, b) == IF a >= b THEN a ELSE b

\* int(x) of a non-negative x given as n / d
Trunc(n, d) == IF n >= 0 THEN n \div d ELSE -((-n) \div d)

\* mutant: the extent rounded up
HologramExtent_RoundUp(base, size) == Trunc(base * size + 99, 100)

\* int(base_width * settings.hologram_size), size in hundredths
HologramExtent(base, size) == Trunc(base * size, 100)

\* mutant: the offset taken over the whole base extent
HologramOffset_FromBase(base, extent, position) == Trunc(base * position, 100)

\* int((base_width - hologram_width) * settings.hologram_position_x)
HologramOffset(base, extent, position) == Trunc((base - extent) * position, 100)

\* max(2, int(settings.glow_intensity * 10))
GlowRadius(glow) == Max(2, Trunc(glow * 10, 100))

\* mutant: the spacing without its lower bound
ScanlineHeight_Unbounded(hh) == hh \div 100

\* max(2, hologram_height // 100)
ScanlineHeight(hh) == Max(2, hh \div 100)

\* 1.0 - (settings.flicker_intensity * 0.3), in ten-thousandths
FlickerAlpha(flicker) == 10000 - flicker * 30

\* one entry of filter_complex, "[inputs]filter=args[outputs]", under the name
\* that the comment above its append gives the step
Filter(stage, filter, inputs, args, outputs) ==
    [stage |-> stage, filter |-> filter, inputs |-> inputs, args |-> args, outputs |-> outputs]

\* the builder's two locals
Graph(fc, last) == [filter_complex |-> fc, last_filter |-> last]

AddScale(hw, hh) ==
    Graph(<<Filter("scale", "scale", <<"1:v">>, <<hw, hh>>, <<"scaled">>)>>, "none")

\* mutant: last_filter is not moved on to the tinted stream
AddTint_StaleLast(g, s) ==
    IF s.blue_tint
    THEN Graph(Append(g.filter_complex,
                      Filter("tint", "colorbalance", <<"scaled">>, <<-30, -20, 50>>, <<"tinted">>)),
               "scaled")
    ELSE Graph(g.filter_complex, "scaled")

AddTint(g, s) ==
    IF s.blue_tint
    THEN Graph(Append(g.filter_complex,
                      Filter("tint", "colorbalance", <<"scaled">>, <<-30, -20, 50>>, <<"tinted">>)),
               "tinted")
    ELSE Graph(g.filter_complex, "scaled")

\* mutant: a rotated overlay gets a rotate stage ahead of the transparency
AddTransparency_Rotated(g, s) ==
    LET turned == IF s.rotation_angle # 0
                  THEN Graph(Append(g.filter_complex,
                                    Filter("rotate", "rotate", <<g.last_filter>>,
                                           <<s.rotation_angle>>, <<"rotated">>)),
                             "rotated")
                  ELSE g
    IN  Graph(Append(turned.filter_complex,
                     Filter("transparency", "format=rgba,colorchannelmixer",
                            <<turned.last_filter>>, <<s.transparency>>, <<"transparent">>)),
              "transparent")

AddTransparency(g, s) ==
    Graph(Append(g.filter_complex,
                 Filter("transparency", "format=rgba,colorchannelmixer", <<g.last_filter>>,
                        <<s.transparency>>, <<"transparent">>)),
          "transparent")

AddGlow(g, s) ==
    IF s.glow_intensity > 0
    THEN Graph(g.filter_complex \o
               <<Filter("glow", "split", <<g.last_filter>>, <<>>, <<"glow_input", "main">>),
                 Filter("glow", "boxblur", <<"glow_input">>, <<GlowRadius(s.glow_intensity), 1>>,
                        <<"glow">>),
                 Filter("glow", "overlay", <<"glow", "main">>, <<>>, <<"glowed">>)>>,
               "glowed")
    ELSE g

\* mutant: the scanlines are drawn whatever the setting
AddScanlines_Always(g, s, hh) ==
    Graph(Append(g.filter_complex,
                 Filter("scanlines", "drawgrid", <<g.last_filter>>, <<ScanlineHeight(hh)>>,
                        <<"scanlined">>)),
          "scanlined")

AddScanlines(g, s, hh) ==
    IF s.scanlines
    THEN Graph(Append(g.filter_complex,
                      Filter("scanlines", "drawgrid", <<g.last_filter>>, <<ScanlineHeight(hh)>>,
                             <<"scanlined">>)),
               "scanlined")
    ELSE g

AddFlicker(g, s) ==
    IF s.flicker_intensity > 0
    THEN Graph(Append(g.filter_complex,
                      Filter("flicker", "colorchannelmixer", <<g.last_filter>>,
                             <<FlickerAlpha(s.flicker_intensity)>>, <<"flickered">>)),
               "flickered")
    ELSE g

AddOverlay(g, hx, hy) ==
    Graph(Append(g.filter_complex,
                 Filter("composite", "overlay", <<"0:v", g.last_filter>>, <<hx, hy>>, <<"output">>)),
          "output")

\* mutant: the scanlines are drawn before the glow is added
BuildFilterComplex_ScanlinesFirst(hw, hh, hx, hy, s) ==
    AddOverlay(
        AddFlicker(
            AddGlow(
                AddScanlines(AddTransparency(AddTint(AddScale(hw, hh), s), s), s, hh), s), s),
        hx, hy).filter_complex

\* lines 181-220: the appends to filter_complex in their order
BuildFilterComplex(hw, hh, hx, hy, s) ==
    AddOverlay(
        AddFlicker(
            AddScanlines(
                AddGlow(AddTransparency(AddTint(AddScale(hw, hh), s), s), s), s, hh), s),
        hx, hy).filter_complex

\* mutant: the task reads the settings back from the project record
TaskSettings_FromRecord(st, tk) == st[tk.project_id].settings

\* the settings a task works with: its own argument
TaskSettings(st, tk) == tk.settings

-----------------------------------------------------------------------------
(* process_hologram_video *)

\* mutant: the except branch records the error but leaves the status alone
FailureFields_KeepStatus(message) ==
    [error_message |-> message, processing_progress |-> 0]

\* the $set of the except branch
FailureFields(message) ==
    [status |-> "failed", error_message |-> message, processing_progress |-> 0]

\* the $set of the success branch
SuccessFields(p, size) ==
    [status |-> "completed", output_path |-> OutputPath(p), output_size |-> <<size>>,
     processing_progress |-> 100]

\* mutant: the first update_one of the task marks the project completed
TaskBegin_Completed(r) ==
    /\ task[r].pc = "scheduled"
    /\ store' = SetFields(store, task[r].project_id,
                          [status |-> "completed", processing_progress |-> 0])
    /\ task' = [task EXCEPT ![r].pc = "analyzing"]
    /\ out' = NoResponse
    /\ UNCHANGED <<files, req, upl>>

\* the first update_one of the task
TaskBegin(r) ==
    /\ task[r].pc = "scheduled"
    /\ store' = SetFields(store, task[r].project_id,
                          [status |-> "processing", processing_progress |-> 0])
    /\ task' = [task EXCEPT ![r].pc = "analyzing"]
    /\ out' = NoResponse
    /\ UNCHANGED <<files, req, upl>>

\* update_progress(10.0)
TaskAnalyze(r) ==
    /\ task[r].pc = "analyzing"
    /\ store' = update_progress(store, task[r].project_id, 10)
    /\ task' = [task EXCEPT ![r].pc = "probing"]
    /\ out' = NoResponse
    /\ UNCHANGED <<files, req, upl>>

\* mutant: the task goes on whatever the probe gave
TaskProbe_GoesOn(r, outcome, dims) ==
    /\ task[r].pc = "probing"
    /\ store' = update_progress(store, task[r].project_id, 25)
    /\ task' = IF outcome = "ok"
               THEN [task EXCEPT ![r].pc = "dimensions",
                                 ![r].base_width = dims[1],
                                 ![r].base_height = dims[2]]
               ELSE [task EXCEPT ![r].pc = "dimensions"]
    /\ out' = NoResponse
    /\ UNCHANGED <<files, req, upl>>

\* get_video_info and the stream lookup, then update_progress(25.0) or the except
\* branch; dims: the width and height of the video stream that ffprobe reports
TaskProbe(r, outcome, dims) ==
    /\ task[r].pc = "probing"
    /\ IF outcome = "ok"
       THEN /\ store' = update_progress(store, task[r].project_id, 25)
            /\ task' = [task EXCEPT ![r].pc = "dimensions",
                                    ![r].base_width = dims[1],
                                    ![r].base_height = dims[2]]
       ELSE /\ store' = SetFields(store, task[r].project_id, FailureFields(ProbeError(outcome)))
            /\ task' = [task EXCEPT ![r] = NoTask]
    /\ out' = NoResponse
    /\ UNCHANGED <<files, req, upl>>

\* the hologram dimensions and position, then update_progress(40.0)
TaskDimensions(r) ==
    /\ task[r].pc = "dimensions"
    /\ store' = update_progress(store, task[r].project_id, 40)
    /\ LET s == task[r].settings
           w == HologramExtent(task[r].base_width, s.hologram_size)
           h == HologramExtent(task[r].base_height, s.hologram_size)
       IN task' = [task EXCEPT ![r].pc = "filters",
                               ![r].hologram_width = w,
                               ![r].hologram_height = h,
                               ![r].hologram_x = HologramOffset(task[r].base_width, w,
                                                                s.hologram_position_x),
                               ![r].hologram_y = HologramOffset(task[r].base_height, h,
                                                                s.hologram_position_y)]
    /\ out' = NoResponse
    /\ UNCHANGED <<files, req, upl>>

\* mutant: the overlay position shifted by the project id
TaskFilters_ByProject(r) ==
    /\ task[r].pc = "filters"
    /\ store' = update_progress(store, task[r].project_id, 60)
    /\ task' = [task EXCEPT ![r].pc = "command",
                            ![r].filter_complex =
                                BuildFilterComplex(task[r].hologram_width, task[r].hologram_height,
                                                   task[r].hologram_x + task[r].project_id,
                                                   task[r].hologram_y,
                                                   TaskSettings(store, task[r]))]
    /\ out' = NoResponse
    /\ UNCHANGED <<files, req, upl>>

\* the filter_complex list, then update_progress(60.0)
TaskFilters(r) ==
    /\ task[r].pc = "filters"
    /\ store' = update_progress(store, task[r].project_id, 60)
    /\ task' = [task EXCEPT ![r].pc = "command",
                            ![r].filter_complex =
                                BuildFilterComplex(task[r].hologram_width, task[r].hologram_height,
                                                   task[r].hologram_x, task[r].hologram_y,
                                                   TaskSettings(store, task[r]))]
    /\ out' = NoResponse
    /\ UNCHANGED <<files, req, upl>>

\* the ffmpeg command line, then update_progress(80.0)
TaskCommand(r) ==
    /\ task[r].pc = "command"
    /\ store' = update_progress(store, task[r].project_id, 80)
    /\ task' = [task EXCEPT ![r].pc = "rendering"]
    /\ out' = NoResponse
    /\ UNCHANGED <<files, req, upl>>

\* Popen and communicate, then update_progress(95.0) or the except branch;
\* wrote: whether a failing ffmpeg had already opened its output file
TaskRender(r, outcome, wrote) ==
    /\ task[r].pc = "rendering"
    /\ LET p == task[r].project_id IN
       IF outcome = "ok"
       THEN /\ files' = [files EXCEPT ![OutputPath(p)] = "complete"]
            /\ store' = update_progress(store, p, 95)
            /\ task' = [task EXCEPT ![r].pc = "finalizing"]
       ELSE /\ files' = IF outcome = "exit_nonzero" /\ wrote
                         THEN [files EXCEPT ![OutputPath(p)] = "partial"]
                         ELSE files
            /\ store' = SetFields(store, p, FailureFields(FfmpegError(outcome)))
            /\ task' = [task EXCEPT ![r] = NoTask]
    /\ out' = NoResponse
    /\ UNCHANGED <<req, upl>>

\* the stat of the output file and the update_one of the success branch
TaskFinalize(r, size) ==
    /\ task[r].pc = "finalizing"
    /\ size \in StatSizes(files[OutputPath(task[r].project_id)])
    /\ store' = SetFields(store, task[r].project_id, SuccessFields(task[r].project_id, size))
    /\ task' = [task EXCEPT ![r] = NoTask]
    /\ out' = NoResponse
    /\ UNCHANGED <<files, req, upl>>

-----------------------------------------------------------------------------
Next ==
    \/ \E name \in ProjectNames : CreateProject(name)
    \/ \E k \in Kinds, p \in ProjectIds :
          \E ctype \in ContentTypes(k), size \in UploadSizesMB(k) : UploadRead(k, p, ctype, size)
    \/ \E k \in Kinds : UploadWrite(k)
    \/ \E k \in Kinds : UploadCommit(k)
    \/ \E r \in Slots, p \in ProjectIds, settings \in SettingsInputs, ffmpeg \in BOOLEAN :
          StartRead(r, p, settings, ffmpeg)
    \/ \E r \in Slots : StartCommit(r)
    \/ \E r \in Slots : TaskBegin(r)
    \/ \E r \in Slots : TaskAnalyze(r)
    \/ \E r \in Slots, outcome \in ProbeOutcomes, dims \in ProbeDims : TaskProbe(r, outcome, dims)
    \/ \E r \in Slots : TaskDimensions(r)
    \/ \E r \in Slots : TaskFilters(r)
    \/ \E r \in Slots : TaskCommand(r)
    \/ \E r \in Slots, outcome \in FfmpegOutcomes, wrote \in BOOLEAN : TaskRender(r, outcome, wrote)
    \/ \E r \in Slots, size \in OutputSizes : TaskFinalize(r, size)

Spec == Init /\ [][Next]_vars

\* the next step of the background task in slot r
TaskStep(r) ==
    \/ TaskBegin(r)
    \/ TaskAnalyze(r)
    \/ \E outcome \in ProbeOutcomes, dims \in ProbeDims : TaskProbe(r, outcome, dims)
    \/ TaskDimensions(r)
    \/ TaskFilters(r)
    \/ TaskCommand(r)
    \/ \E outcome \in FfmpegOutcomes, wrote \in BOOLEAN : TaskRender(r, outcome, wrote)
    \/ \E size \in OutputSizes : TaskFinalize(r, size)

(* The event loop resumes every scheduled task whose awaited call has returned,
   and ffprobe and ffmpeg are taken to terminate: a task that can take its
   next step takes it. Requests are under no obligation to arrive. *)
Fairness == \A r \in Slots : WF_vars(TaskStep(r))

\* the record of project p with both assets uploaded
UploadedRecord(p) ==
    SetFields(
        SetFields(<<HologramProject("demo")>>, 1, UploadFields("base", p, "video/mp4", 60)),
        1, UploadFields("hologram", p, "image/png", 10))[1]

UploadedProject == <<UploadedRecord(1)>>

\* the state after create_project and the two uploads have returned
LiveInit ==
    /\ store = UploadedProject
    /\ files = [f \in AllPaths |->
                    IF f \in {UploadPath(k, 1) : k \in Kinds} THEN "complete" ELSE "absent"]
    /\ req = [r \in Slots |-> IdleReq]
    /\ task = [r \in Slots |-> NoTask]
    /\ upl = [k \in Kinds |-> IdleUpload]
    /\ out = Response("upload_hologram_media", 0, 1, "ok")

\* the start requests and the background tasks
LiveNext ==
    \/ \E r \in Slots, p \in ProjectIds, settings \in SettingsInputs, ffmpeg \in BOOLEAN :
          StartRead(r, p, settings, ffmpeg)
    \/ \E r \in Slots : StartCommit(r)
    \/ \E r \in Slots : TaskBegin(r)
    \/ \E r \in Slots : TaskAnalyze(r)
    \/ \E r \in Slots, outcome \in ProbeOutcomes, dims \in ProbeDims : TaskProbe(r, outcome, dims)
    \/ \E r \in Slots : TaskDimensions(r)
    \/ \E r \in Slots : TaskFilters(r)
    \/ \E r \in Slots : TaskCommand(r)
    \/ \E r \in Slots, outcome \in FfmpegOutcomes, wrote \in BOOLEAN : TaskRender(r, outcome, wrote)
    \/ \E r \in Slots, size \in OutputSizes : TaskFinalize(r, size)

LiveSpec == LiveInit /\ [][LiveNext]_vars /\ Fairness

-----------------------------------------------------------------------------
(* Start requests whose body leaves settings fields out *)

\* mutant: the body is taken as it comes
HologramSettings_AsSent(body) == body

\* HologramSettings(**body): every field the body leaves out takes its default
HologramSettings(body) ==
    [f \in DOMAIN DefaultSettings |-> IF f \in DOMAIN body THEN body[f] ELSE DefaultSettings[f]]

\* request bodies: none of the fields, one, some, all
SettingsBodies ==
    {<<>>,
     [hologram_size |-> 50],
     [glow_intensity |-> 0, scanlines |-> FALSE, transparency |-> 100],
     PlainSettings}

\* process_project called with the body as the client sent it
StartReadBody(r, p, body, ffmpeg) == StartRead(r, p, HologramSettings(body), ffmpeg)

BodyNext ==
    \/ \E r \in Slots, p \in ProjectIds, body \in SettingsBodies, ffmpeg \in BOOLEAN :
          StartReadBody(r, p, body, ffmpeg)
    \/ \E r \in Slots : StartCommit(r)
    \/ \E r \in Slots : TaskBegin(r)
    \/ \E r \in Slots : TaskAnalyze(r)
    \/ \E r \in Slots, outcome \in ProbeOutcomes, dims \in ProbeDims : TaskProbe(r, outcome, dims)
    \/ \E r \in Slots : TaskDimensions(r)
    \/ \E r \in Slots : TaskFilters(r)
    \/ \E r \in Slots : TaskCommand(r)
    \/ \E r \in Slots, outcome \in FfmpegOutcomes, wrote \in BOOLEAN : TaskRender(r, outcome, wrote)
    \/ \E r \in Slots, size \in OutputSizes : TaskFinalize(r, size)

BodySpec == LiveInit /\ [][BodyNext]_vars

-----------------------------------------------------------------------------
(* get_processing_status and download_processed_video *)

size_names == <<"B", "KB", "MB", "GB">>

\* the while loop: the divisor reached and the number of divisions made
RECURSIVE Divided(_, _, _)
Divided(size_bytes, divisor, i) ==
    IF size_bytes >= 1024 * divisor /\ i < Len(size_names) - 1
    THEN Divided(size_bytes, divisor * 1024, i + 1)
    ELSE <<divisor, i>>

\* "0 B", or f"{size_bytes:.1f} {size_names[i]}" with the number in tenths
format_file_size(size_bytes) ==
    IF size_bytes = 0
    THEN [tenths |-> 0, decimals |-> 0, unit |-> "B"]
    ELSE LET d == Divided(size_bytes, 1, 0) IN
         [tenths |-> (20 * size_bytes + d[1]) \div (2 * d[1]), decimals |-> 1,
          unit |-> size_names[d[2] + 1]]

\* the message of the status response, by the status of the record
StatusMessage(project) ==
    IF project.status = "created"
    THEN [text |-> "Project created, ready for processing"]
    ELSE IF project.status = "processing"
    THEN [text |-> "Processing... % complete", progress |-> project.processing_progress]
    ELSE IF project.status = "completed"
    THEN [text |-> "Processing completed! Output file size: ",
          output_size |-> IF project.output_size # None /\ project.output_size[1] # 0
                          THEN format_file_size(project.output_size[1])
                          ELSE [text |-> "Unknown"]]
    ELSE IF project.status = "failed"
    THEN [text |-> "Processing failed: ",
          error |-> IF project.error_message # None
                    THEN project.error_message
                    ELSE <<"Unknown error">>]
    ELSE [text |-> "Status: ", status |-> project.status]

ProcessingStatus(p, project) ==
    [handler |-> "get_processing_status", slot |-> 0, project_id |-> p, result |-> "ok",
     status |-> project.status, progress |-> project.processing_progress,
     message |-> StatusMessage(project), error_message |-> project.error_message]

\* mutant: the status read marks the record as read by resetting its progress
GetStatus_Writes(p) ==
    /\ out' = IF p \in DOMAIN store
              THEN ProcessingStatus(p, store[p])
              ELSE Response("get_processing_status", 0, p, "not_found")
    /\ store' = update_progress(store, p, 0)
    /\ UNCHANGED <<files, req, task, upl>>

\* find_one, the message, the response
GetStatus(p) ==
    /\ out' = IF p \in DOMAIN store
              THEN ProcessingStatus(p, store[p])
              ELSE Response("get_processing_status", 0, p, "not_found")
    /\ UNCHANGED <<store, files, req, task, upl>>

\* mutant: the download looks at the output path only
DownloadCheck_PathOnly(st, fs, p) ==
    IF p \notin DOMAIN st THEN "not_found"
    ELSE IF st[p].output_path = None THEN "no_output_path"
    ELSE IF fs[st[p].output_path] = "absent" THEN "missing_on_disk"
    ELSE "ok"

\* the checks of download_processed_video in their order
DownloadCheck(st, fs, p) ==
    IF p \notin DOMAIN st THEN "not_found"
    ELSE IF st[p].status # "completed" THEN "not_ready"
    ELSE IF st[p].output_path = None THEN "no_output_path"
    ELSE IF fs[st[p].output_path] = "absent" THEN "missing_on_disk"
    ELSE "ok"

\* FileResponse(str(output_path), ...): the file as it stands on disk
FileResponse(p, path, fs) ==
    [handler |-> "download_processed_video", slot |-> 0, project_id |-> p, result |-> "ok",
     path |-> path, content |-> fs[path]]

\* find_one, the checks, the response
Download(p) ==
    /\ LET check == DownloadCheck(store, files, p) IN
       out' = IF check = "ok"
              THEN FileResponse(p, store[p].output_path, files)
              ELSE Response("download_processed_video", 0, p, check)
    /\ UNCHANGED <<store, files, req, task, upl>>

\* the start requests and the background tasks of one project with both assets,
\* and status reads and downloads of it and of an id that no project has
ReadNext ==
    \/ LiveNext
    \/ \E p \in PairIds : GetStatus(p)
    \/ \E p \in PairIds : Download(p)

ReadSpec == LiveInit /\ [][ReadNext]_vars

-----------------------------------------------------------------------------
(* Two projects side by side, each with both assets uploaded: re-uploads of
   the base video, start requests and background tasks of either project *)

PairInit ==
    /\ store = [p \in PairIds |-> UploadedRecord(p)]
    /\ files = [f \in AllPaths |->
                    IF f \in {UploadPath(k, p) : k \in Kinds, p \in PairIds}
                    THEN "complete" ELSE "absent"]
    /\ req = [r \in Slots |-> IdleReq]
    /\ task = [r \in Slots |-> NoTask]
    /\ upl = [k \in Kinds |-> IdleUpload]
    /\ out = Response("upload_hologram_media", 0, Len(store), "ok")

\* one way to succeed and one way to fail for the probe and for ffmpeg
PairNext ==
    \/ \E p \in PairIds : UploadRead("base", p, "video/mp4", 60)
    \/ UploadWrite("base")
    \/ UploadCommit("base")
    \/ \E r \in Slots, p \in PairIds : StartRead(r, p, PlainSettings, TRUE)
    \/ \E r \in Slots : StartCommit(r)
    \/ \E r \in Slots : TaskBegin(r)
    \/ \E r \in Slots : TaskAnalyze(r)
    \/ \E r \in Slots, outcome \in {"ok", "no_info"}, dims \in ProbeDims : TaskProbe(r, outcome, dims)
    \/ \E r \in Slots : TaskDimensions(r)
    \/ \E r \in Slots : TaskFilters(r)
    \/ \E r \in Slots : TaskCommand(r)
    \/ \E r \in Slots, outcome \in {"ok", "exit_nonzero"}, wrote \in {TRUE} : TaskRender(r, outcome, wrote)
    \/ \E r \in Slots, size \in {1536000} : TaskFinalize(r, size)

PairSpec == PairInit /\ [][PairNext]_vars

-----------------------------------------------------------------------------
(* One run over a wide range of settings and base dimensions: the state right
   after process_project has scheduled a task, and the steps of that task *)

GraphSettings ==
    [hologram_size : {10, 30, 50, 100},
     hologram_position_x : {0, 50, 100},
     hologram_position_y : {0, 100},
     glow_intensity : {0, 5, 27, 70},
     flicker_intensity : {0, 30},
     scanlines : BOOLEAN,
     blue_tint : BOOLEAN,
     rotation_angle : {0, 45},
     transparency : {70, 100}]

GraphDims == {<<8, 6>>, <<640, 480>>, <<1920, 1080>>}

\* the record of a project with both assets uploaded and the settings persisted
StartedProject(s) == SetFields(UploadedProject, 1, [settings |-> s])

GraphInit ==
    \E s \in GraphSettings :
        /\ store = StartedProject(s)
        /\ files = [f \in AllPaths |->
                        IF f \in {UploadPath(k, 1) : k \in Kinds} THEN "complete" ELSE "absent"]
        /\ req = [r \in Slots |-> IdleReq]
        /\ task = [r \in Slots |->
                        IF r = 1
                        THEN [NoTask EXCEPT !.pc = "scheduled", !.project_id = 1, !.settings = s,
                                            !.base_video_path = UploadPath("base", 1),
                                            !.hologram_media_path = UploadPath("hologram", 1)]
                        ELSE NoTask]
        /\ upl = [k \in Kinds |-> IdleUpload]
        /\ out = Response("process_project", 1, 1, "started")

GraphNext ==
    \/ \E r \in Slots : TaskBegin(r)
    \/ \E r \in Slots : TaskAnalyze(r)
    \/ \E r \in Slots, outcome \in ProbeOutcomes, dims \in GraphDims : TaskProbe(r, outcome, dims)
    \/ \E r \in Slots : TaskDimensions(r)
    \/ \E r \in Slots : TaskFilters(r)
    \/ \E r \in Slots : TaskCommand(r)
    \/ \E r \in Slots, outcome \in FfmpegOutcomes, wrote \in BOOLEAN : TaskRender(r, outcome, wrote)
    \/ \E r \in Slots, size \in OutputSizes : TaskFinalize(r, size)

GraphSpec == GraphInit /\ [][GraphNext]_vars

-----------------------------------------------------------------------------
(* Steps of process_project and of the task, as seen in a pair of states *)

\* slot r holds a request that passed the checks, or its task
Active(r) == req[r].pc = "checked" \/ task[r].pc # "none"

\* this step is a call of process_project on p being turned down
StartRejected(p) ==
    /\ out'.handler = "process_project"
    /\ out'.project_id = p
    /\ out'.result \in Rejections

\* this step is a call of process_project on p passing its checks
StartPassed(p) ==
    \E r \in Slots : req[r].pc = "idle" /\ req'[r].pc = "checked" /\ req'[r].project_id = p

\* this step is process_project in slot r returning its acknowledgment
StartReturned(r) == req[r].pc = "checked" /\ req'[r].pc = "idle"

\* this step ends the task of slot r in its except branch, out of the given position
TaskFailedAt(r, pc) == task[r].pc = pc /\ task'[r].pc = "none"

-----------------------------------------------------------------------------
(* C1: of two start requests on one project that has both assets and is not
   processing, at most one passes the check and schedules a run; stated as: no
   two slots ever hold a scheduled or running task of the same project. *)
C1_OneRunPerProject ==
    \A r1, r2 \in Slots :
        (r1 # r2 /\ task[r1].pc # "none" /\ task[r2].pc # "none")
            => task[r1].project_id # task[r2].project_id

(* C2: whenever process_project returns success, the record already has status
   processing, progress 0 and the settings passed in. *)
C2_ProcessingBeforeAck ==
    [][\A r \in Slots :
        StartReturned(r) =>
            LET p == req[r].project_id IN
            /\ store'[p].status = "processing"
            /\ store'[p].processing_progress = 0
            /\ store'[p].settings = req[r].settings]_vars

ForwardTransitions ==
    {<<"created", "processing">>, <<"processing", "completed">>,
     <<"processing", "failed">>, <<"failed", "processing">>}

(* C3: every change of a project's status is created->processing,
   processing->completed, processing->failed or failed->processing. *)
C3_ForwardOnly ==
    [][\A p \in DOMAIN store :
        store'[p].status # store[p].status
            => <<store[p].status, store'[p].status>> \in ForwardTransitions]_vars

(* C4: output_path is set if and only if status is completed. *)
C4_OutputIffCompleted ==
    \A p \in DOMAIN store :
        (store[p].output_path # None) <=> (store[p].status = "completed")

(* C5: error_message is set if and only if status is failed. *)
C5_ErrorIffFailed ==
    \A p \in DOMAIN store :
        (store[p].error_message # None) <=> (store[p].status = "failed")

(* C6: a start on a project with an unset asset path is turned down with the
   missing-inputs error, changes nothing and schedules nothing; no task ever
   holds an unset asset path. *)
C6_MissingInputsRejected ==
    [][/\ \A p \in DOMAIN store :
            MissingInputs(store[p]) =>
                /\ ~StartPassed(p)
                /\ StartRejected(p) =>
                      /\ out'.result = "missing_inputs"
                      /\ store' = store
                      /\ task' = task
                      /\ req' = req
       /\ \A r \in Slots :
            task'[r].pc # "none" =>
                /\ task'[r].base_video_path # None
                /\ task'[r].hologram_media_path # None
                /\ ~MissingInputs(store'[task'[r].project_id])]_vars

\* a start was just turned down for missing inputs on a project holding one asset only
C6_Witness ==
    /\ out.handler = "process_project"
    /\ out.result = "missing_inputs"
    /\ out.project_id \in DOMAIN store
    /\ store[out.project_id].base_video_path # None
    /\ store[out.project_id].hologram_media_path = None
    /\ store[out.project_id].status = "created"
    /\ \A r \in Slots : ~Active(r)

(* C7: a start on a project whose status is processing is turned down with the
   already-running error, changes nothing and schedules no second run. *)
C7_ProcessingRejected ==
    [][\A p \in DOMAIN store :
        store[p].status = "processing" =>
            /\ ~StartPassed(p)
            /\ StartRejected(p) =>
                  /\ out'.result = "already_processing"
                  /\ store' = store
                  /\ task' = task
                  /\ req' = req]_vars

\* a start was just turned down on a project that a task is processing
C7_Witness ==
    /\ out.handler = "process_project"
    /\ out.result = "already_processing"
    /\ out.project_id \in DOMAIN store
    /\ store[out.project_id].status = "processing"
    /\ store[out.project_id].settings # EmptySettings
    /\ \E r \in Slots : task[r].pc = "rendering" /\ task[r].project_id = out.project_id

(* C8: every start that is turned down (not found, missing inputs, already
   running, ffmpeg unavailable) has no side effect: no record is created or
   changed, no settings are persisted, nothing is scheduled. *)
C8_RejectedNoSideEffect ==
    [][(out'.handler = "process_project" /\ out'.result \in Rejections) =>
            /\ store' = store
            /\ files' = files
            /\ task' = task
            /\ req' = req
            /\ upl' = upl]_vars

\* a start was just turned down at the last check, the record still without settings
C8_Witness ==
    /\ out.handler = "process_project"
    /\ out.result = "ffmpeg_unavailable"
    /\ out.project_id \in DOMAIN store
    /\ ~MissingInputs(store[out.project_id])
    /\ store[out.project_id].settings = EmptySettings
    /\ \A r \in Slots : ~Active(r)

(* C9: a run whose probe fails, or finds no video stream, leaves the project
   failed with progress 0, an error message and no output_path. *)
C9_ProbeFailure ==
    [][\A r \in Slots :
        TaskFailedAt(r, "probing") =>
            LET p == task[r].project_id IN
            /\ store'[p].status = "failed"
            /\ store'[p].processing_progress = 0
            /\ store'[p].error_message # None
            /\ store'[p].output_path = None]_vars

(* C10: a run whose ffmpeg exits non-zero or cannot be launched records failed
   with the diagnostic text, the project does not hold the output path of that
   run, and no response goes to a client. *)
C10_FfmpegFailure ==
    [][\A r \in Slots :
        TaskFailedAt(r, "rendering") =>
            LET p == task[r].project_id IN
            /\ store'[p].status = "failed"
            /\ store'[p].error_message \in {FfmpegError(o) : o \in FfmpegOutcomes \ {"ok"}}
            /\ store'[p].output_path # OutputPath(p)
            /\ out' = NoResponse]_vars

(* C11: wherever status is completed, processing_progress is 100 and
   output_path and output_size are recorded. *)
C11_CompletedAt100 ==
    \A p \in DOMAIN store :
        store[p].status = "completed" =>
            /\ store[p].processing_progress = 100
            /\ store[p].output_path # None
            /\ store[p].output_size # None

(* C12: processing_progress is 0 wherever status is failed, and is 0 when
   status becomes processing. *)
C12_ProgressReset ==
    [][\A p \in DOMAIN store :
        /\ store'[p].status = "failed" => store'[p].processing_progress = 0
        /\ (store[p].status # "processing" /\ store'[p].status = "processing")
              => store'[p].processing_progress = 0]_vars

(* C13: while status stays processing, processing_progress never decreases. *)
C13_ProgressMonotonic ==
    [][\A p \in DOMAIN store :
        (store[p].status = "processing" /\ store'[p].status = "processing")
            => store'[p].processing_progress >= store[p].processing_progress]_vars

(* C15: no automatic retry: a task calls the probe and ffmpeg at most once
   each (it never comes back to either call), and a status of failed is left
   only by the first write of a run, which sets processing. *)
C15_NoRetry ==
    [][/\ \A r \in Slots :
            /\ (task'[r].pc = "probing" /\ task[r].pc # "probing") => task[r].pc = "analyzing"
            /\ (task'[r].pc = "rendering" /\ task[r].pc # "rendering") => task[r].pc = "command"
       /\ \A p \in DOMAIN store :
            (store[p].status = "failed" /\ store'[p].status # "failed")
                => /\ store'[p].status = "processing"
                   /\ \E r \in Slots : task[r].pc = "scheduled" /\ task'[r].pc = "analyzing"]_vars

(* C17: whenever the record holds an asset path, the file at that path is
   completely written, also while the asset is uploaded again. *)
C17_AssetFilesComplete ==
    \A p \in DOMAIN store :
        /\ store[p].base_video_path # None => files[store[p].base_video_path] = "complete"
        /\ store[p].hologram_media_path # None => files[store[p].hologram_media_path] = "complete"

(* C18: a run owns its copy of the settings: a task is scheduled with the
   settings of its start call, keeps them to its end, and builds its filter
   graph from them, whatever the record's settings field holds by then. *)
C18_RunOwnsSettings ==
    [][\A r \in Slots :
        /\ StartReturned(r) => task'[r].settings = req[r].settings
        /\ (task[r].pc # "none" /\ task'[r].pc # "none") => task'[r].settings = task[r].settings
        /\ (task[r].pc = "filters" /\ task'[r].pc = "command")
              => task'[r].filter_complex =
                    BuildFilterComplex(task[r].hologram_width, task[r].hologram_height,
                                       task[r].hologram_x, task[r].hologram_y, task[r].settings)
        /\ (task[r].filter_complex # <<>> /\ task'[r].pc # "none")
              => task'[r].filter_complex = task[r].filter_complex]_vars

\* a task has built its graph while the record holds the settings of another start
C18_Witness ==
    \E r \in Slots :
        /\ task[r].pc = "command"
        /\ task[r].filter_complex # <<>>
        /\ store[task[r].project_id].settings # task[r].settings

StageOrder == <<"scale", "tint", "transparency", "glow", "scanlines", "flicker", "composite">>

StageRank(stage) == CHOOSE i \in 1 .. Len(StageOrder) : StageOrder[i] = stage

\* fc runs through the stages in their fixed order, scale first, composite last
InStageOrder(fc) ==
    /\ fc[1].stage = "scale"
    /\ fc[Len(fc)].stage = "composite"
    /\ \A i, j \in 1 .. Len(fc) :
          i < j => \/ StageRank(fc[i].stage) < StageRank(fc[j].stage)
                   \/ fc[i].stage = "glow" /\ fc[j].stage = "glow"

(* C19: the filter stages come in the fixed order scale, tint, transparency,
   glow, scanlines, flicker, composite: scale first, composite last, no stage
   ahead of one that precedes it. *)
C19_StageOrder ==
    \A r \in Slots : task[r].filter_complex # <<>> => InStageOrder(task[r].filter_complex)

\* a graph with every stage in it
C19_Witness ==
    \E r \in Slots :
        {task[r].filter_complex[i].stage : i \in 1 .. Len(task[r].filter_complex)}
            = {StageOrder[i] : i \in 1 .. Len(StageOrder)}

RawInputs == {"0:v", "1:v"}

\* the places of fc that read label l
Readers(fc, l) ==
    {<<i, k>> \in (1 .. Len(fc)) \X (1 .. 2) : k <= Len(fc[i].inputs) /\ fc[i].inputs[k] = l}

\* the places of fc that write label l
Writers(fc, l) ==
    {<<i, k>> \in (1 .. Len(fc)) \X (1 .. 2) : k <= Len(fc[i].outputs) /\ fc[i].outputs[k] = l}

WellFormed(fc) ==
    /\ \A i \in 1 .. Len(fc) : \A k \in 1 .. Len(fc[i].inputs) :
          \/ fc[i].inputs[k] \in RawInputs
          \/ \E w \in Writers(fc, fc[i].inputs[k]) : w[1] < i
    /\ \A i \in 1 .. Len(fc) : \A k \in 1 .. Len(fc[i].outputs) :
          LET l == fc[i].outputs[k] IN
          /\ Cardinality(Writers(fc, l)) = 1
          /\ IF l = "output" THEN i = Len(fc) /\ Readers(fc, l) = {}
             ELSE Cardinality(Readers(fc, l)) = 1
    /\ fc[Len(fc)].inputs = <<"0:v", fc[Len(fc) - 1].outputs[1]>>

(* C20: the filter graph is well-formed: every input label is a raw input or
   the output of an earlier stage, every produced label but the final output
   is consumed exactly once, and the composite stage consumes the output of
   the last effect stage. *)
C20_WellFormed ==
    \A r \in Slots : task[r].filter_complex # <<>> => WellFormed(task[r].filter_complex)

\* a graph with tint and glow whose glow output goes straight to the composite stage
C20_Witness ==
    \E r \in Slots :
        LET fc == task[r].filter_complex IN
        /\ Len(fc) = 7
        /\ fc[2].stage = "tint"
        /\ fc[6].stage = "glow"
        /\ fc[7].inputs = <<"0:v", "glowed">>

(* C14: every accepted start leads its project to a terminal status: the task
   it scheduled comes to its end with the project completed or failed, and a
   project that is processing does not stay so forever. *)
C14_RunTerminates ==
    \A p \in ProjectIds :
        /\ \A r \in Slots :
              (task[r].pc = "scheduled" /\ task[r].project_id = p)
                  ~> (/\ task[r].pc = "none"
                      /\ p \in DOMAIN store
                      /\ store[p].status \in {"completed", "failed"})
        /\ (p \in DOMAIN store /\ store[p].status = "processing")
              ~> (p \in DOMAIN store /\ store[p].status \in {"completed", "failed"})

\* every task started has come to its end and the project is completed
C14_Witness ==
    \E p \in DOMAIN store :
        /\ store[p].status = "completed"
        /\ \A r \in Slots : task[r].pc = "none" /\ req[r].pc = "idle"

\* the step belongs to an operation on project p: a request, a task or an
\* upload of p moved, or a request for p was answered
OperationOf(p) ==
    \/ \E r \in Slots : req'[r] # req[r] /\ p \in {req[r].project_id, req'[r].project_id}
    \/ \E r \in Slots : task'[r] # task[r] /\ p \in {task[r].project_id, task'[r].project_id}
    \/ \E k \in Kinds : upl'[k] # upl[k] /\ p \in {upl[k].project_id, upl'[k].project_id}
    \/ out'.project_id = p

(* C16: runs of distinct projects do not interfere: a step changes the record
   and the files of one project only, the project whose start, upload or
   background task takes the step, so the record of another project goes
   through its own operations' writes alone in every interleaving. *)
C16_NoInterference ==
    [][/\ \A p \in DOMAIN store : store'[p] # store[p] => OperationOf(p)
       /\ \A f \in AllPaths : files'[f] # files[f] => OperationOf(PathProject(f))
       /\ \A p, q \in DOMAIN store : (OperationOf(p) /\ OperationOf(q)) => p = q]_vars

\* the tasks of the two projects run at the same time, both past their first write
C16_Witness ==
    \E r, q \in Slots :
        /\ task[r].project_id = 1 /\ task[r].pc \notin {"none", "scheduled"}
        /\ task[q].project_id = 2 /\ task[q].pc \notin {"none", "scheduled"}
        /\ store[1].status = "processing"
        /\ store[2].status = "processing"

\* the stages that fc has entries of
Stages(fc) == {fc[i].stage : i \in 1 .. Len(fc)}

\* the stages that the settings s ask for
StagesAsked(s) ==
    {"scale", "transparency", "composite"}
        \cup (IF s.blue_tint THEN {"tint"} ELSE {})
        \cup (IF s.glow_intensity > 0 THEN {"glow"} ELSE {})
        \cup (IF s.scanlines THEN {"scanlines"} ELSE {})
        \cup (IF s.flicker_intensity > 0 THEN {"flicker"} ELSE {})

(* C21: stage presence follows the settings exactly: scale, transparency and
   composite always; tint iff blue_tint, glow iff glow_intensity > 0, scanlines
   iff scanlines, flicker iff flicker_intensity > 0. *)
C21_StagePresence ==
    \A r \in Slots :
        task[r].filter_complex # <<>>
            => Stages(task[r].filter_complex) = StagesAsked(task[r].settings)

\* the minimal graph: every optional stage switched off, transparency 1.0
C21_Witness ==
    \E r \in Slots :
        /\ task[r].filter_complex # <<>>
        /\ task[r].settings.transparency = 100
        /\ task[r].settings.glow_intensity = 0
        /\ task[r].settings.flicker_intensity = 0
        /\ ~task[r].settings.scanlines
        /\ ~task[r].settings.blue_tint
        /\ Stages(task[r].filter_complex) = {"scale", "transparency", "composite"}

(* C22: a run whose overlay dimensions come out 0 in width or height never
   gets as far as building the graph and invoking the compositor. *)
C22_ZeroDimensionRejected ==
    \A r \in Slots :
        task[r].pc \in {"command", "rendering", "finalizing"}
            => task[r].hologram_width >= 1 /\ task[r].hologram_height >= 1

\* the task of slot r has computed its geometry
Placed(r) == task[r].pc \in {"filters", "command", "rendering", "finalizing"}

(* C23: the overlay never extends outside the base frame: 0 <= x, 0 <= y,
   x + overlay_w <= base_w, y + overlay_h <= base_h, in the task's geometry and
   in the overlay stage's arguments; with size 1.0 at position (0,0) the
   overlay is exactly the base frame at (0,0). *)
C23_OverlayInsideBase ==
    \A r \in Slots :
        Placed(r) =>
            LET tk == task[r] IN
            /\ 0 <= tk.hologram_x
            /\ 0 <= tk.hologram_y
            /\ tk.hologram_x + tk.hologram_width <= tk.base_width
            /\ tk.hologram_y + tk.hologram_height <= tk.base_height
            /\ (tk.settings.hologram_size = 100 /\ tk.settings.hologram_position_x = 0
                    /\ tk.settings.hologram_position_y = 0)
                  => /\ tk.hologram_width = tk.base_width
                     /\ tk.hologram_height = tk.base_height
                     /\ tk.hologram_x = 0
                     /\ tk.hologram_y = 0
            /\ tk.filter_complex # <<>>
                  => /\ tk.filter_complex[1].args = <<tk.hologram_width, tk.hologram_height>>
                     /\ tk.filter_complex[Len(tk.filter_complex)].args
                            = <<tk.hologram_x, tk.hologram_y>>

\* an overlay smaller than the base pushed to the right and bottom edges
C23_Witness ==
    \E r \in Slots :
        /\ task[r].filter_complex # <<>>
        /\ task[r].settings.hologram_position_x = 100
        /\ task[r].settings.hologram_position_y = 100
        /\ 0 < task[r].hologram_width
        /\ task[r].hologram_width < task[r].base_width
        /\ task[r].hologram_x + task[r].hologram_width = task[r].base_width
        /\ task[r].hologram_y + task[r].hologram_height = task[r].base_height

\* floor(n / d)
Floor(n, d) == n \div d

(* C24: the overlay geometry equals the reference formulas:
   overlay_w = floor(base_w * size), overlay_h = floor(base_h * size),
   x = floor((base_w - overlay_w) * position_x),
   y = floor((base_h - overlay_h) * position_y). *)
C24_ReferenceGeometry ==
    \A r \in Slots :
        Placed(r) =>
            LET tk == task[r]
                w == Floor(tk.base_width * tk.settings.hologram_size, 100)
                h == Floor(tk.base_height * tk.settings.hologram_size, 100)
            IN  /\ tk.hologram_width = w
                /\ tk.hologram_height = h
                /\ tk.hologram_x = Floor((tk.base_width - w) * tk.settings.hologram_position_x, 100)
                /\ tk.hologram_y = Floor((tk.base_height - h) * tk.settings.hologram_position_y, 100)

\* base 640 by 480, size 0.5, position (1.0, 0.0): 320 by 240 at (320, 0)
C24_Witness ==
    \E r \in Slots :
        /\ Placed(r)
        /\ task[r].base_width = 640 /\ task[r].base_height = 480
        /\ task[r].settings.hologram_size = 50
        /\ task[r].settings.hologram_position_x = 100
        /\ task[r].settings.hologram_position_y = 0
        /\ task[r].hologram_width = 320 /\ task[r].hologram_height = 240
        /\ task[r].hologram_x = 320 /\ task[r].hologram_y = 0

\* round(n / d), to the nearest integer
Round(n, d) == (2 * n + d) \div (2 * d)

(* C25: for glow_intensity > 0 the blur radius of the glow stage is
   max(2, round(glow_intensity * 10)), rounded to the nearest integer. *)
C25_GlowRadiusRounded ==
    \A r \in Slots :
        \A i \in 1 .. Len(task[r].filter_complex) :
            task[r].filter_complex[i].filter = "boxblur"
                => task[r].filter_complex[i].args[1]
                      = Max(2, Round(task[r].settings.glow_intensity * 10, 100))

(* C26: graph construction is deterministic: two runs with the same base
   dimensions and the same settings build the same stage sequence with the
   same final output label, whatever their project ids and the store hold. *)
C26_Deterministic ==
    \A r, q \in Slots :
        (/\ task[r].filter_complex # <<>>
         /\ task[q].filter_complex # <<>>
         /\ task[r].base_width = task[q].base_width
         /\ task[r].base_height = task[q].base_height
         /\ task[r].settings = task[q].settings)
            => /\ task[r].filter_complex = task[q].filter_complex
               /\ task[r].filter_complex[Len(task[r].filter_complex)].outputs = <<"output">>

\* the runs of two projects, whose records differ, have both built their graphs
C26_Witness ==
    \E r, q \in Slots :
        /\ task[r].project_id = 1 /\ task[r].filter_complex # <<>>
        /\ task[q].project_id = 2 /\ task[q].filter_complex # <<>>
        /\ task[r].settings = task[q].settings
        /\ store[1].status = "processing" /\ store[1].output_path # None
        /\ store[2].status = "processing" /\ store[2].output_path = None

(* C27: the status message of a failed project includes its error message,
   and that of a completed project the formatted size of its output_size,
   whatever size is recorded, 0 included. *)
C27_TerminalMessages ==
    (out.handler = "get_processing_status" /\ out.result = "ok") =>
        LET project == store[out.project_id] IN
        /\ project.status = "failed"
              => /\ project.error_message # None
                 /\ out.message = [text |-> "Processing failed: ", error |-> project.error_message]
        /\ project.status = "completed"
              => out.message = [text |-> "Processing completed! Output file size: ",
                                output_size |-> format_file_size(project.output_size[1])]

\* this step is a status read for p
StatusRead(p) == out'.handler = "get_processing_status" /\ out'.project_id = p

(* C28: the status read is read-only: it changes no record and no file and
   schedules nothing, and for an unknown id it reports not found. *)
C28_StatusReadOnly ==
    [][\A p \in PairIds :
          StatusRead(p) => /\ UNCHANGED <<store, files, req, task, upl>>
                           /\ p \notin DOMAIN store <=> out'.result = "not_found"
                           /\ p \in DOMAIN store
                                 => /\ out'.status = store[p].status
                                    /\ out'.progress = store[p].processing_progress]_vars

\* a status read in the middle of a run, answered with the progress so far
C28_Witness ==
    /\ out.handler = "get_processing_status"
    /\ out.result = "ok"
    /\ out.status = "processing"
    /\ out.progress = 60
    /\ \E r \in Slots : task[r].pc = "command"

\* this step is a download request for p
DownloadRequest(p) == out'.handler = "download_processed_video" /\ out'.project_id = p

(* C29: the download returns the output file only when the status is
   completed and an output_path is recorded; for a created, processing or
   failed project it is refused; it never changes the record. *)
C29_DownloadOnlyCompleted ==
    [][\A p \in DOMAIN store :
          DownloadRequest(p) =>
              /\ UNCHANGED <<store, files, req, task, upl>>
              /\ out'.result = "ok"
                    => /\ store[p].status = "completed"
                       /\ store[p].output_path # None
                       /\ out'.path = store[p].output_path
              /\ store[p].status \in {"created", "processing", "failed"}
                    => out'.result = "not_ready"]_vars

\* a download refused for a project in a later run, with the earlier output still recorded
C29_Witness ==
    /\ out.handler = "download_processed_video"
    /\ out.result = "not_ready"
    /\ store[out.project_id].status = "processing"
    /\ store[out.project_id].output_path # None

\* this step is an upload of kind k turned down
UploadRejected(k) ==
    /\ out'.handler = UploadHandler(k)
    /\ out'.result \in {"not_found", "bad_type", "too_large"}

\* this step is an upload of kind k passing its checks and opening its file
UploadAccepted(k) == upl[k].pc = "idle" /\ upl'[k].pc = "writing"

(* C30: an upload is rejected, with the record and the files left as they
   were, when the project id is unknown, when the content type is not allowed
   (base: video only; overlay: video or image only), or when the file exceeds
   the limit (100 MB base, 50 MB overlay): a rejected upload changes nothing,
   and an upload that is let through has a known project, an allowed type and
   a size within the limit. *)
C30_UploadRejected ==
    [][\A k \in Kinds :
          /\ UploadRejected(k) => UNCHANGED <<store, files, upl, req, task>>
          /\ UploadAccepted(k)
                => /\ upl'[k].project_id \in DOMAIN store
                   /\ IF k = "base" THEN upl'[k].content_type = "video/mp4"
                      ELSE upl'[k].content_type \in {"video/mp4", "image/png"}
                   /\ upl'[k].size <= (IF k = "base" THEN 100 ELSE 50)]_vars

\* an upload for an existing project turned down for its size
C30_Witness ==
    /\ out.handler \in {"upload_base_video", "upload_hologram_media"}
    /\ out.result = "too_large"
    /\ out.project_id \in DOMAIN store

\* the defaults as documented: size 0.3, position 0.5/0.5, glow 0.7, flicker 0.3,
\* scanlines and blue tint on, rotation 0.0, transparency 0.7
DocumentedDefaults ==
    [hologram_size |-> 30, hologram_position_x |-> 50, hologram_position_y |-> 50,
     glow_intensity |-> 70, flicker_intensity |-> 30, scanlines |-> TRUE,
     blue_tint |-> TRUE, rotation_angle |-> 0, transparency |-> 70]

\* s has every settings field, the body's value where the body has the field
\* and the documented default where it has not
Populated(s, body) ==
    /\ DOMAIN s = DOMAIN DocumentedDefaults
    /\ \A f \in DOMAIN s : s[f] = IF f \in DOMAIN body THEN body[f] ELSE DocumentedDefaults[f]

(* C31: a start call that leaves out some or all settings fields runs with,
   and persists, fully populated settings: the documented default for every
   field left out, the supplied value for every field supplied. *)
C31_DefaultsFilled ==
    [][\A r \in Slots :
          /\ \A p \in ProjectIds, body \in SettingsBodies :
                (StartReadBody(r, p, body, TRUE) /\ req'[r].pc = "checked")
                    => Populated(req'[r].settings, body)
          /\ StartReturned(r)
                => /\ store'[req[r].project_id].settings = req[r].settings
                   /\ task'[r].settings = req[r].settings
                   /\ DOMAIN task'[r].settings = DOMAIN DocumentedDefaults]_vars

\* a run has built its graph from settings of which the client sent the size only
C31_Witness ==
    \E r \in Slots :
        /\ task[r].filter_complex # <<>>
        /\ task[r].settings = [DocumentedDefaults EXCEPT !.hologram_size = 50]
        /\ store[task[r].project_id].settings = task[r].settings

\* how far the task of slot r has come
ProbeReturned(r) == task[r].pc \in {"dimensions", "filters", "command", "rendering", "finalizing"}
DimensionsCalculated(r) == task[r].pc \in {"filters", "command", "rendering", "finalizing"}
GraphBuilt(r) == task[r].filter_complex # <<>>
CompositorExitedZero(r) == task[r].pc = "finalizing"

(* C32: the progress milestones follow the work they name: while a run is in
   flight, 10 is on the record only after the probe has returned, 25 only
   after the overlay dimensions are calculated, 40 only after the filter graph
   is built, 60 only before the compositor is invoked, 95 only after it exited
   with code 0, and 100 only together with status completed. *)
C32_MilestonesFollowWork ==
    /\ \A r \in Slots :
          task[r].pc # "none" =>
              LET progress == store[task[r].project_id].processing_progress IN
              /\ progress = 10 => ProbeReturned(r)
              /\ progress = 25 => DimensionsCalculated(r)
              /\ progress = 40 => GraphBuilt(r)
              /\ progress = 60 => GraphBuilt(r) /\ ~CompositorExitedZero(r)
              /\ progress = 95 => CompositorExitedZero(r)
    /\ \A p \in DOMAIN store :
          store[p].processing_progress = 100 => store[p].status = "completed"

\* this step is the task of slot r invoking the compositor
CompositorInvoked(r) == task[r].pc = "rendering" /\ task'[r].pc # "rendering"

(* C33: within a run the steps come in the order probe, filter-graph build,
   compositor invocation, terminal record update: the graph is built and the
   compositor invoked only after the probe has returned a width and a height,
   a run whose probe failed ends there, failed, and the terminal status is
   written by the last step of the run. *)
C33_StepOrder ==
    [][\A r \in Slots :
          LET p == task[r].project_id IN
          /\ (task[r].filter_complex = <<>> /\ task'[r].filter_complex # <<>>)
                => task[r].base_width >= 1 /\ task[r].base_height >= 1
          /\ CompositorInvoked(r)
                => /\ task[r].base_width >= 1 /\ task[r].base_height >= 1
                   /\ task[r].filter_complex # <<>>
                   /\ store[p].status = "processing"
          /\ TaskFailedAt(r, "probing")
                => /\ task[r].filter_complex = <<>>
                   /\ store'[p].status = "failed"
                   /\ files' = files
          /\ (task[r].pc # "none" /\ store'[p].status \in {"completed", "failed"})
                => task'[r].pc = "none"
          /\ (task[r].pc # "none" /\ task'[r].pc = "none")
                => store'[p].status \in {"completed", "failed"}]_vars

\* a run ended by a failed probe: failed, and no output file written
C33_Witness ==
    \E p \in DOMAIN store :
        /\ store[p].status = "failed"
        /\ store[p].error_message = <<"No video stream found in base video">>
        /\ files[OutputPath(p)] = "absent"
        /\ \A r \in Slots : task[r].pc = "none"

(* C34: a project becomes completed only by the last step of a run of that
   project whose compositor exited with code 0; no other step sets status to
   completed. *)
C34_CompletedOnlyByRun ==
    [][\A p \in DOMAIN store :
          (store'[p].status = "completed" /\ store[p].status # "completed")
              => \E r \in Slots : /\ task[r].project_id = p
                                  /\ CompositorExitedZero(r)
                                  /\ task'[r].pc = "none"]_vars

\* a project completed, its output file written in full
C34_Witness ==
    \E p \in DOMAIN store :
        /\ store[p].status = "completed"
        /\ store[p].output_path = OutputPath(p)
        /\ files[OutputPath(p)] = "complete"
        /\ store[p].error_message = None

(* C35: a start call on a failed project that has both assets is accepted:
   it passes the checks and schedules a run, and that run puts the project
   back to processing with progress 0. *)
C35_RestartFromFailed ==
    /\ [][\A r \in Slots, p \in ProjectIds, settings \in SettingsInputs :
              (/\ p \in DOMAIN store
               /\ store[p].status = "failed"
               /\ ~MissingInputs(store[p])
               /\ StartRead(r, p, settings, TRUE))
                  => /\ req'[r].pc = "checked"
                     /\ req'[r].project_id = p
                     /\ store' = store]_vars
    /\ [][\A r \in Slots :
              StartReturned(r) => task'[r].pc = "scheduled"
                                  /\ task'[r].project_id = req[r].project_id]_vars
    /\ \A r \in Slots, p \in ProjectIds :
          (task[r].pc = "scheduled" /\ task[r].project_id = p /\ store[p].status = "failed")
              ~> (/\ task[r].pc = "analyzing"
                  /\ store[p].status = "processing"
                  /\ store[p].processing_progress = 0)

\* a project that failed earlier has been run again and is completed
C35_Witness ==
    \E p \in DOMAIN store :
        /\ store[p].status = "completed"
        /\ store[p].error_message # None
        /\ \A r \in Slots : task[r].pc = "none" /\ req[r].pc = "idle"

\* the geometry and the graph that base dimensions and settings give
GraphOf(bw, bh, s) ==
    LET hw == Floor(bw * s.hologram_size, 100)
        hh == Floor(bh * s.hologram_size, 100)
    IN  BuildFilterComplex(hw, hh,
                           Floor((bw - hw) * s.hologram_position_x, 100),
                           Floor((bh - hh) * s.hologram_position_y, 100), s)

(* C36: rotation_angle has no effect on the filter graph: the graph of a run
   is the graph that the same base dimensions and the same settings with any
   other rotation_angle give, stage by stage, overlay placement included. *)
C36_RotationIgnored ==
    \A r \in Slots :
        GraphBuilt(r) =>
            \A angle \in {-45, 0, 45} :
                task[r].filter_complex
                    = GraphOf(task[r].base_width, task[r].base_height,
                              [task[r].settings EXCEPT !.rotation_angle = angle])

\* a run with a rotation of 45 degrees has built its graph
C36_Witness ==
    \E r \in Slots : GraphBuilt(r) /\ task[r].settings.rotation_angle = 45

(* C37: with scanlines on, the grid spacing is max(2, overlay_h div 100),
   taken from the overlay height and not the base height, and so at least 2. *)
C37_ScanlineSpacing ==
    \A r \in Slots :
        \A i \in 1 .. Len(task[r].filter_complex) :
            task[r].filter_complex[i].stage = "scanlines"
                => LET spacing == task[r].filter_complex[i].args[1]
                       byHeight == task[r].hologram_height \div 100
                   IN  /\ spacing >= 2
                       /\ spacing = IF byHeight >= 2 THEN byHeight ELSE 2

\* scanlines over an overlay of 324 lines on a base of 1080: spacing 3, not 10
C37_Witness ==
    \E r \in Slots :
        /\ task[r].base_height = 1080
        /\ task[r].hologram_height = 324
        /\ \E i \in 1 .. Len(task[r].filter_complex) :
              /\ task[r].filter_complex[i].stage = "scanlines"
              /\ task[r].filter_complex[i].args = <<3>>

\* the fields of the record that belong to the asset of kind k
AssetFields(k) ==
    IF k = "base"
    THEN {"base_video_path", "base_video_filename", "base_video_size"}
    ELSE {"hologram_media_path", "hologram_media_filename", "hologram_media_size",
          "hologram_media_type"}

\* this step is the upload of kind k writing the record
UploadCommitted(k) == upl[k].pc = "written" /\ upl'[k].pc = "idle"

(* C38: an upload changes only the uploaded asset's own fields: never status,
   processing_progress, settings, output_path or error_message, nor the other
   asset's fields, whatever state the project is in; and a run in flight keeps
   the asset paths that its start call read. *)
C38_UploadOwnFields ==
    [][/\ \A k \in Kinds :
            UploadCommitted(k) =>
                /\ \A p \in DOMAIN store :
                      \A f \in DOMAIN store[p] :
                          store'[p][f] # store[p][f]
                              => p = upl[k].project_id /\ f \in AssetFields(k)
                /\ task' = task
                /\ req' = req
       /\ \A r \in Slots :
            /\ StartReturned(r)
                  => /\ task'[r].base_video_path = req[r].base_video_path
                     /\ task'[r].hologram_media_path = req[r].hologram_media_path
            /\ (task[r].pc # "none" /\ task'[r].pc # "none")
                  => /\ task'[r].base_video_path = task[r].base_video_path
                     /\ task'[r].hologram_media_path = task[r].hologram_media_path]_vars

\* an upload has written the record of a project that is processing, a run in flight
C38_Witness ==
    /\ out.handler \in {"upload_base_video", "upload_hologram_media"}
    /\ out.result = "ok"
    /\ store[out.project_id].status = "processing"
    /\ \E r \in Slots : task[r].project_id = out.project_id /\ task[r].pc = "rendering"

\* the task of slot r is in flight
InFlight(r) == task[r].pc # "none"

(* C39: at most one compositor writes a given project's output file at a
   time: two runs in flight never have the same output path, and distinct
   projects have distinct output paths. *)
C39_OneWriterPerOutput ==
    /\ \A r, q \in Slots :
          (r # q /\ InFlight(r) /\ InFlight(q))
              => OutputPath(task[r].project_id) # OutputPath(task[q].project_id)
    /\ \A p, q \in PairIds : p # q => OutputPath(p) # OutputPath(q)

=============================================================================
